---- MODULE Spec2Model ----
(***************************************************************************)
(* Transaction relay subsystem of NadRacer-Backend (src/relayer.js, with   *)
(* the administrative operations of its earlier variant,                   *)
(* src/unnamed/part_000): a pool of relayer wallets, one FIFO queue and    *)
(* one queue processor per wallet, and the ledger the processors talk to.  *)
(* One action is one synchronous run of JavaScript between two awaits.     *)
(***************************************************************************)
EXTENDS Integers, Sequences, FiniteSets, TLC

(* ------------------------------ bounds ------------------------------- *)
\* relayer keys configured in the environment (RELAYER_PRIVATE_KEY_i)
NumKeys == 2
\* requests admitted over one run
MaxRequests == 2
\* restarts that may be scheduled (setTimeout) and not yet fired, per relayer
MaxTimers == 1
\* invocations of the completion callback that raise, over one run
MaxRaises == 1
\* recorded callback invocations per request (the record saturates)
MaxNotes == 3
\* unconfirmed transactions the ledger keeps per wallet
MaxPending == 1
\* pool size and queue length of the states the selection is tried on
PoolMax == 3
MaxQLen == 2
\* entries the pool may grow to when initialize pushes its wallets again
MaxPoolLen == 2
\* wei in one gwei in the fee estimator's runs (10^9 on the ledger)
WeiPerGwei == 2
\* largest base and priority component of a fee quote, in wei
MaxBaseQuote == 200
MaxPriorityQuote == 10
\* calls of the fee estimator on one quote
MaxFeeCalls == 2
\* the largest component, in wei, of the quotes that reach past the floors
MaxWideQuote == 130

(* ------------------------- program constants ------------------------- *)
maxRetries == 5
CooldownThreshold == 3
\* milliseconds of the first back-off and of the longest
BackoffBase == 2000
BackoffCap == 30000

Addr == 1 .. (IF NumKeys > PoolMax THEN NumKeys ELSE PoolMax)
ReqIds == 1 .. (MaxRequests + PoolMax * MaxQLen)
Recipients == {"", "0xA"}
Amounts == {-1, 0, 1}

NoTx == [id |-> 0, pointsToMint |-> 0, retryCount |-> 0]
NoCall == [op |-> "none", walletAddress |-> "", pointsToMint |-> 0, ret |-> FALSE]

VARIABLES
  isInitialized,        \* this.isInitialized
  onTransactionComplete,\* a completion callback is registered
  relayers,             \* this.relayers: the pool, in pool order
  relayerStats,         \* this.relayerStats[address]
  txQueues,             \* this.txQueues[address]
  processingFlags,      \* this.processingFlags[address]
  pc,                   \* where each wallet's processQueue instance is suspended
  instances,            \* processQueue instances past the entry guard, per wallet
  consecutiveFailures,  \* the local of processQueue
  txData,               \* the head request captured by the running iteration
  txNonce,              \* nonce of the transaction the instance waits for
  timers,               \* restarts scheduled by the finally block, not yet fired
  backoffTime,          \* ms of the back-off delay a processor is suspended in
  detached,             \* the iteration's stats record is one initialize replaced
  registry,             \* per address: its stats, queue and flag entries exist
  latest,               \* ledger: confirmed transaction count per wallet
  mempool,              \* ledger: nonces of the accepted, unconfirmed transactions
  nextId,               \* next request identifier
  lastCall,             \* the last inbound API call and what it returned
  accepted,             \* per request: submissions the ledger accepted (0, 1, 2 = more)
  attempts,             \* per request: iterations that entered the inner try
  lastBackoff,          \* per request: ms of its latest back-off delay (0: none yet)
  completions,          \* per request: success flags of the callback invocations
  outcome,              \* per request: how it left its queue
  owner,                \* per request: the wallet whose queue received it
  thrown,               \* invocations of the callback that raised
  GAS_PRIORITY,         \* process.env.GAS_PRIORITY ("" when unset)
  feeData,              \* what provider.getFeeData() returned
  fees,                 \* what calculateGasFeesByPriority returned last
  prevFees,             \* what it returned the time before
  feeCalls              \* calls of calculateGasFeesByPriority so far

vars == <<isInitialized, onTransactionComplete, relayers, registry, relayerStats, txQueues,
          processingFlags, pc, instances, consecutiveFailures, txData, txNonce,
          timers, backoffTime, detached, latest, mempool, nextId, lastCall, accepted, attempts,
          lastBackoff, completions, outcome, owner, thrown, GAS_PRIORITY, feeData, fees, prevFees, feeCalls>>

procVars == <<pc, instances, consecutiveFailures, txData, txNonce, timers, backoffTime,
              detached>>
ledgerVars == <<latest, mempool>>
histVars == <<accepted, attempts, lastBackoff, completions, outcome, owner, thrown>>
feeVars == <<GAS_PRIORITY, feeData, fees, prevFees, feeCalls>>

(* ------------------------------ helpers ------------------------------ *)
Range(s) == {s[i] : i \in 1 .. Len(s)}

Pool == Range(relayers)

ZeroStats(n) ==
  [active |-> TRUE, currentNonce |-> n, totalTxSent |-> 0, totalTxSuccess |-> 0,
   totalTxFailed |-> 0, tokensTransferred |-> 0, queueLength |-> 0]

\* provider.getTransactionCount(address, "latest")
LatestCount(a) == latest[a]

RECURSIVE NextFree(_, _)
NextFree(a, n) == IF n \in mempool[a] THEN NextFree(a, n + 1) ELSE n

\* provider.getTransactionCount(address, "pending")
PendingCount(a) == NextFree(a, latest[a])

(* --------------------------- fee estimator --------------------------- *)
\* amounts are in wei; WeiPerGwei scales the 10^9 of ethers.parseUnits(_, 'gwei')
\* down so that the products stay small, and keeps 1.5 gwei a whole number
NoFee == -1
NoFees == [maxFeePerGas |-> NoFee, maxPriorityFeePerGas |-> NoFee]
DefaultBaseFee == 50 * WeiPerGwei
DefaultPriorityFee == (15 * WeiPerGwei) \div 10
MIN_MAX_FEE_PER_GAS == 60 * WeiPerGwei
MIN_PRIORITY_FEE_PER_GAS == 2 * WeiPerGwei

\* the values GAS_PRIORITY takes: unset, the three tiers, another case, others
EnvValues == {"", "slow", "medium", "fast", "FAST", "turbo"}
\* a fee component of the quote: null, zero, or an amount
BaseQuotes == {NoFee} \cup (0 .. MaxBaseQuote)
PriorityQuotes == {NoFee} \cup (0 .. MaxPriorityQuote)
\* either component of a quote that reaches past the largest floor
WideQuotes == {NoFee} \cup (0 .. MaxWideQuote)

\* String.prototype.toLowerCase on the values above
toLowerCase(s) == IF s = "FAST" THEN "fast" ELSE s

\* a ?? b, which keeps a zero
OrElseNullOnly(v, d) == IF v = NoFee THEN d ELSE v

\* JavaScript's a || b on a bigint or null, and on a string
OrElse(v, d) == IF v = NoFee \/ v = 0 THEN d ELSE v
OrElseStr(v, d) == IF v = "" THEN d ELSE v

\* "if (x < min) x = min"
AtLeastNothing(x, min) == x
AtLeast(x, min) == IF x < min THEN min ELSE x

\* every setting taken with the fee ratio of slow and the priority ratio of fast
calculateGasFeesByPrioritySteep(fd, env) ==
  LET baseFeePerGas == OrElse(fd.maxFeePerGas, DefaultBaseFee)
      priorityFeePerGas == OrElse(fd.maxPriorityFeePerGas, DefaultPriorityFee)
  IN  [maxFeePerGas |-> AtLeast((baseFeePerGas * 120) \div 100, MIN_MAX_FEE_PER_GAS),
       maxPriorityFeePerGas |-> AtLeast((priorityFeePerGas * 200) \div 100,
                                        MIN_PRIORITY_FEE_PER_GAS)]

calculateGasFeesByPriority(fd, env) ==
  LET priority == toLowerCase(OrElseStr(env, "medium"))
      baseFeePerGas == OrElse(fd.maxFeePerGas, DefaultBaseFee)
      priorityFeePerGas == OrElse(fd.maxPriorityFeePerGas, DefaultPriorityFee)
  IN  CASE priority = "slow" ->
             [maxFeePerGas |-> AtLeast((baseFeePerGas * 120) \div 100,
                                       MIN_MAX_FEE_PER_GAS),
              maxPriorityFeePerGas |-> AtLeast(priorityFeePerGas,
                                               MIN_PRIORITY_FEE_PER_GAS)]
        [] priority = "fast" ->
             [maxFeePerGas |-> AtLeast((baseFeePerGas * 250) \div 100,
                                       MIN_MAX_FEE_PER_GAS * 2),
              maxPriorityFeePerGas |-> AtLeast((priorityFeePerGas * 200) \div 100,
                                               MIN_PRIORITY_FEE_PER_GAS * 2)]
        [] OTHER ->
             [maxFeePerGas |-> AtLeast((baseFeePerGas * 150) \div 100,
                                       (MIN_MAX_FEE_PER_GAS * 150) \div 100),
              maxPriorityFeePerGas |-> AtLeast((priorityFeePerGas * 150) \div 100,
                                               (MIN_PRIORITY_FEE_PER_GAS * 150) \div 100)]

\* no fee has been asked for: the processor specifications keep it that way
FeesIdle ==
  /\ GAS_PRIORITY = ""
  /\ feeData = NoFees
  /\ fees = NoFees
  /\ prevFees = NoFees
  /\ feeCalls = 0

(* ------------------------- initial states ---------------------------- *)
\* the state the constructor leaves (relayer.js 24-39), on a fresh ledger
Init ==
  /\ isInitialized = FALSE
  /\ onTransactionComplete = FALSE
  /\ relayers = <<>>
  /\ relayerStats = [a \in Addr |-> ZeroStats(0)]
  /\ txQueues = [a \in Addr |-> <<>>]
  /\ processingFlags = [a \in Addr |-> FALSE]
  /\ pc = [a \in Addr |-> "idle"]
  /\ instances = [a \in Addr |-> 0]
  /\ consecutiveFailures = [a \in Addr |-> 0]
  /\ txData = [a \in Addr |-> NoTx]
  /\ txNonce = [a \in Addr |-> 0]
  /\ timers = [a \in Addr |-> 0]
  /\ backoffTime = [a \in Addr |-> 0]
  /\ detached = [a \in Addr |-> FALSE]
  /\ registry = [a \in Addr |-> "absent"]
  /\ latest = [a \in Addr |-> 0]
  /\ mempool = [a \in Addr |-> {}]
  /\ nextId = 1
  /\ lastCall = NoCall
  /\ accepted = [q \in ReqIds |-> 0]
  /\ attempts = [q \in ReqIds |-> 0]
  /\ lastBackoff = [q \in ReqIds |-> 0]
  /\ completions = [q \in ReqIds |-> <<>>]
  /\ outcome = [q \in ReqIds |-> "none"]
  /\ owner = [q \in ReqIds |-> 0]
  /\ thrown = 0
  /\ FeesIdle

(* --------------------------- coordinator ----------------------------- *)
\* initialize(provider) as the server calls it: on success the pool holds one
\* wallet per configured key, each with zeroed stats, an empty queue and a
\* cleared flag, and the server registers its completion callback at once.
\* n = 0 is the start with no usable RELAYER_PRIVATE_KEY_i and a
\* relayer-wallets.json that lists no wallet: the loop over the file adds
\* nothing, no fallback is taken, and initialize goes on to return true
Initialize(configOk, n) ==
  /\ ~isInitialized
  /\ IF configOk
     THEN /\ relayers' = [i \in 1 .. n |-> i]
          /\ relayerStats' = [a \in Addr |->
                IF a \in 1 .. n THEN ZeroStats(LatestCount(a)) ELSE relayerStats[a]]
          /\ txQueues' = [a \in Addr |-> IF a \in 1 .. n THEN <<>> ELSE txQueues[a]]
          /\ processingFlags' =
                [a \in Addr |-> IF a \in 1 .. n THEN FALSE ELSE processingFlags[a]]
          /\ registry' = [a \in Addr |-> IF a \in 1 .. n THEN "present" ELSE registry[a]]
          /\ isInitialized' = TRUE
          /\ onTransactionComplete' = TRUE
          /\ lastCall' = [NoCall EXCEPT !.op = "initialize", !.ret = TRUE]
     ELSE /\ lastCall' = [NoCall EXCEPT !.op = "initialize", !.ret = FALSE]
          /\ UNCHANGED <<relayers, registry, relayerStats, txQueues, processingFlags,
                         isInitialized, onTransactionComplete>>
  /\ UNCHANGED <<procVars, ledgerVars, nextId, histVars, feeVars>>

\* selectRelayer without its filter: every wallet of the pool is a candidate
allRelayers == relayers

\* the relayers.filter(...) of selectRelayer
activeRelayers ==
  SelectSeq(relayers, LAMBDA r : registry[r] = "present" /\ relayerStats[r].active)

\* the loop with <= for <: among equally short queues the last one wins
RECURSIVE ShortestQueueLast(_, _, _)
ShortestQueueLast(act, i, best) ==
  IF i > Len(act) THEN best
  ELSE ShortestQueueLast(act, i + 1,
         IF Len(txQueues[act[i]]) <= Len(txQueues[best]) THEN act[i] ELSE best)

\* the for loop of selectRelayer: a strictly shorter queue replaces the best
RECURSIVE ShortestQueue(_, _, _)
ShortestQueue(act, i, best) ==
  IF i > Len(act) THEN best
  ELSE ShortestQueue(act, i + 1,
         IF Len(txQueues[act[i]]) < Len(txQueues[best]) THEN act[i] ELSE best)

\* selectRelayer(): 0 stands for null
selectRelayer ==
  IF Len(relayers) = 0 THEN 0
  ELSE IF Len(activeRelayers) = 0 THEN 0
  ELSE ShortestQueue(activeRelayers, 1, activeRelayers[1])

\* the validation of queueTransaction: JavaScript truthiness of the two fields
ValidTxData(w, p) == w # "" /\ p # 0

\* an enqueue that never starts the processor
CanStartNever(a, queues) == FALSE

\* the entry guard without its test of the processing flag
CanStartNoFlag(a, queues) == Len(queues[a]) > 0

\* the entry guard of processQueue, on the queues as they are at the call
CanStart(a, queues) == ~processingFlags[a] /\ Len(queues[a]) > 0

\* unshift for push: the new request goes to the head
PushFront(queue, req) == <<req>> \o queue

\* this.txQueues[relayer.address].push(txData)
Push(queue, req) == Append(queue, req)

\* queueTransaction(txData), with the synchronous head of processQueue(relayer)
queueTransaction(w, p) ==
  LET r == selectRelayer
      ok == isInitialized /\ ValidTxData(w, p) /\ r # 0
  IN  /\ lastCall' = [op |-> "queueTransaction", walletAddress |-> w,
                      pointsToMint |-> p, ret |-> ok]
      /\ IF ok
         THEN LET req == [id |-> nextId, pointsToMint |-> p, retryCount |-> 0]
                  queues == [txQueues EXCEPT ![r] = Push(@, req)]
                  start == CanStart(r, queues)
              IN  /\ nextId <= MaxRequests
                  /\ txQueues' = queues
                  /\ relayerStats' =
                       [relayerStats EXCEPT ![r].queueLength = Len(queues[r])]
                  /\ nextId' = nextId + 1
                  /\ owner' = [owner EXCEPT ![nextId] = r]
                  /\ processingFlags' =
                       [processingFlags EXCEPT ![r] = IF start THEN TRUE ELSE @]
                  /\ pc' = [pc EXCEPT ![r] = IF start THEN "refresh" ELSE @]
                  /\ instances' = [instances EXCEPT ![r] = IF start THEN @ + 1 ELSE @]
                  /\ consecutiveFailures' =
                       [consecutiveFailures EXCEPT ![r] = IF start THEN 0 ELSE @]
         ELSE UNCHANGED <<txQueues, relayerStats, nextId, owner, processingFlags,
                          pc, instances, consecutiveFailures>>
      /\ UNCHANGED <<registry, feeVars, isInitialized, onTransactionComplete, relayers, txData,
                     txNonce, timers, backoffTime, detached, ledgerVars, accepted, attempts, lastBackoff,
                     completions, outcome,
                     thrown>>

\* setRelayerStatus(relayerAddress, isActive)
setRelayerStatus(a, isActive) ==
  /\ IF a \in Pool
     THEN /\ relayerStats' = [relayerStats EXCEPT ![a].active = isActive]
          /\ lastCall' = [NoCall EXCEPT !.op = "setRelayerStatus", !.ret = TRUE]
     ELSE /\ lastCall' = [NoCall EXCEPT !.op = "setRelayerStatus", !.ret = FALSE]
          /\ UNCHANGED relayerStats
  /\ UNCHANGED <<registry, feeVars, isInitialized, onTransactionComplete, relayers, txQueues,
                 processingFlags, procVars, ledgerVars, nextId, histVars>>

\* a refresh that reports success although the ledger read failed
refreshRelayerNonceAlwaysTrue(relayerIndex, readOk) ==
  LET found == relayerIndex >= 0 /\ relayerIndex < Len(relayers)
      a == relayers[relayerIndex + 1]
  IN  /\ IF found
         THEN /\ relayerStats' = [relayerStats EXCEPT ![a].currentNonce =
                                     IF readOk THEN PendingCount(a) ELSE @]
              /\ lastCall' = [NoCall EXCEPT !.op = "refreshRelayerNonce", !.ret = TRUE]
         ELSE /\ lastCall' = [NoCall EXCEPT !.op = "refreshRelayerNonce", !.ret = FALSE]
              /\ UNCHANGED relayerStats
      /\ UNCHANGED <<registry, feeVars, isInitialized, onTransactionComplete, relayers, txQueues,
                     processingFlags, procVars, ledgerVars, nextId, histVars>>

\* refreshRelayerNonce(relayerIndex): the pending-mode read and the write that
\* follows it; an index beyond the pool returns false, a negative one and a
\* failed read raise into the catch block, which returns false
refreshRelayerNonce(relayerIndex, readOk) ==
  LET found == relayerIndex >= 0 /\ relayerIndex < Len(relayers)
      a == relayers[relayerIndex + 1]
  IN  /\ IF found /\ readOk
         THEN /\ relayerStats' = [relayerStats EXCEPT ![a].currentNonce = PendingCount(a)]
              /\ lastCall' = [NoCall EXCEPT !.op = "refreshRelayerNonce", !.ret = TRUE]
         ELSE /\ lastCall' = [NoCall EXCEPT !.op = "refreshRelayerNonce", !.ret = FALSE]
              /\ UNCHANGED relayerStats
      /\ UNCHANGED <<registry, feeVars, isInitialized, onTransactionComplete, relayers, txQueues,
                     processingFlags, procVars, ledgerVars, nextId, histVars>>

\* setTransactionCompleteCallback(callback)
setTransactionCompleteCallback(isFunction) ==
  /\ IF isFunction
     THEN /\ onTransactionComplete' = TRUE
          /\ lastCall' = [NoCall EXCEPT !.op = "setTransactionCompleteCallback",
                                        !.ret = TRUE]
     ELSE /\ lastCall' = [NoCall EXCEPT !.op = "setTransactionCompleteCallback",
                                        !.ret = FALSE]
          /\ UNCHANGED onTransactionComplete
  /\ UNCHANGED <<registry, feeVars, isInitialized, relayers, relayerStats, txQueues,
                 processingFlags, procVars, ledgerVars, nextId, histVars>>

\* the requests queued on wallet a
Queued(a) == {txQueues[a][i].id : i \in 1 .. Len(txQueues[a])}

\* reconnectProvider(): initialize(provider) on the running system, with the
\* keys it was started with. initializeRelayersFromEnv rebuilds the pool in
\* the same order and gives every wallet whose nonce read succeeds a new stats
\* record, a new empty queue and a cleared flag; a wallet whose read fails
\* keeps what it has. Running processQueue instances are not told.
reconnectProvider(failed) ==
  /\ isInitialized
  /\ failed \subseteq Pool
  /\ LET reset(a) == a \in Pool /\ a \notin failed
     IN  /\ relayerStats' = [a \in Addr |->
               IF reset(a) THEN ZeroStats(LatestCount(a)) ELSE relayerStats[a]]
         /\ txQueues' = [a \in Addr |-> IF reset(a) THEN <<>> ELSE txQueues[a]]
         /\ processingFlags' =
               [a \in Addr |-> IF reset(a) THEN FALSE ELSE processingFlags[a]]
         /\ detached' = [a \in Addr |->
               IF reset(a) /\ pc[a] \in {"attempt", "submit", "wait", "nonceErr"}
               THEN TRUE ELSE detached[a]]
         /\ outcome' = [q \in ReqIds |->
               IF \E a \in Addr : reset(a) /\ q \in Queued(a) THEN "reset"
               ELSE outcome[q]]
         /\ registry' = [a \in Addr |-> IF reset(a) THEN "present" ELSE registry[a]]
  /\ lastCall' = [NoCall EXCEPT !.op = "initialize", !.ret = TRUE]
  /\ UNCHANGED <<feeVars, isInitialized, onTransactionComplete, relayers, pc, instances,
                 consecutiveFailures, txData, txNonce, timers, backoffTime, ledgerVars,
                 nextId, accepted, attempts, lastBackoff, completions, owner, thrown>>

\* initialize(provider) through initializeRelayersFromEnv when it is the first
\* call: every key's wallet is pushed to the pool before its nonce is read;
\* a wallet whose read is rejected stays in the pool, the catch of the loop
\* skips its stats, queue and flag, and initialize returns true all the same
InitializeEnv(n, failed) ==
  /\ ~isInitialized
  /\ failed \subseteq 1 .. n
  /\ LET set(a) == a \in 1 .. n /\ a \notin failed
     IN  /\ relayers' = [i \in 1 .. n |-> i]
         /\ relayerStats' = [a \in Addr |->
               IF set(a) THEN ZeroStats(LatestCount(a)) ELSE relayerStats[a]]
         /\ txQueues' = [a \in Addr |-> IF set(a) THEN <<>> ELSE txQueues[a]]
         /\ processingFlags' = [a \in Addr |-> IF set(a) THEN FALSE ELSE processingFlags[a]]
         /\ registry' = [a \in Addr |-> IF set(a) THEN "present" ELSE registry[a]]
  /\ isInitialized' = TRUE
  /\ onTransactionComplete' = TRUE
  /\ lastCall' = [NoCall EXCEPT !.op = "initialize", !.ret = TRUE]
  /\ UNCHANGED <<procVars, ledgerVars, nextId, histVars, feeVars>>

\* what setupOwnerAsRelayer writes once its nonce read has resolved
OwnerEntry(a) ==
  /\ relayerStats' = [relayerStats EXCEPT ![a] = ZeroStats(LatestCount(a))]
  /\ txQueues' = [txQueues EXCEPT ![a] = <<>>]
  /\ processingFlags' = [processingFlags EXCEPT ![a] = FALSE]
  /\ registry' = [registry EXCEPT ![a] = "present"]

\* initialize(provider) with the multi-wallet system disabled (or through one
\* of its fallbacks): setupOwnerAsRelayer() is called without await. It makes
\* the owner wallet, address 1 here, the pool's only member at once and writes
\* the wallet's entries only after its own nonce read, which by the time
\* initialize returns true has resolved, is still pending, or was rejected
InitializeOwner(read) ==
  /\ ~isInitialized
  /\ read \in {"resolved", "pending", "rejected"}
  /\ relayers' = <<1>>
  /\ IF read = "resolved" THEN OwnerEntry(1)
     ELSE /\ registry' = [registry EXCEPT ![1] = IF read = "pending" THEN "pending" ELSE @]
          /\ UNCHANGED <<relayerStats, txQueues, processingFlags>>
  /\ isInitialized' = TRUE
  /\ onTransactionComplete' = TRUE
  /\ lastCall' = [NoCall EXCEPT !.op = "initialize", !.ret = TRUE]
  /\ UNCHANGED <<procVars, ledgerVars, nextId, histVars, feeVars>>

\* the rest of setupOwnerAsRelayer, after initialize has returned
setupOwnerAsRelayer(readOk) ==
  /\ \E a \in Pool : registry[a] = "pending"
  /\ LET a == CHOOSE b \in Pool : registry[b] = "pending"
     IN  IF readOk THEN OwnerEntry(a)
         ELSE /\ registry' = [registry EXCEPT ![a] = "absent"]
              /\ UNCHANGED <<relayerStats, txQueues, processingFlags>>
  /\ UNCHANGED <<feeVars, isInitialized, onTransactionComplete, relayers, procVars,
                 ledgerVars, nextId, lastCall, histVars>>

\* getRelayerStatus(): relayers.filter(r => relayerStats[r.address].active)
\* raises on a pool member without a stats record (ret = FALSE)
getRelayerStatus ==
  /\ lastCall' = [NoCall EXCEPT !.op = "getRelayerStatus",
                                !.ret = \A a \in Pool : registry[a] = "present"]
  /\ UNCHANGED <<registry, feeVars, isInitialized, onTransactionComplete, relayers,
                 relayerStats, txQueues, processingFlags, procVars, ledgerVars, nextId,
                 histVars>>

\* reconnectProvider() in the minting variant: initialize(provider) pushes a
\* wallet for every configured key onto the pool it already has, and gives
\* each an empty queue and a cleared flag before it reads the wallet's nonce;
\* only the new stats record waits for that read
reconnectProviderMint(failed) ==
  /\ isInitialized
  /\ Len(relayers) < MaxPoolLen
  /\ failed \subseteq Pool
  /\ relayers' = relayers \o SubSeq(relayers, 1, Cardinality(Pool))
  /\ relayerStats' = [a \in Addr |->
        IF a \in Pool /\ a \notin failed THEN ZeroStats(LatestCount(a))
        ELSE relayerStats[a]]
  /\ txQueues' = [a \in Addr |-> IF a \in Pool THEN <<>> ELSE txQueues[a]]
  /\ processingFlags' = [a \in Addr |-> IF a \in Pool THEN FALSE ELSE processingFlags[a]]
  /\ registry' = [a \in Addr |-> IF a \in Pool /\ a \notin failed THEN "present"
                                ELSE registry[a]]
  /\ outcome' = [q \in ReqIds |->
        IF \E a \in Pool : q \in Queued(a) THEN "reset" ELSE outcome[q]]
  /\ lastCall' = [NoCall EXCEPT !.op = "initialize", !.ret = TRUE]
  /\ UNCHANGED <<feeVars, isInitialized, onTransactionComplete, procVars, ledgerVars,
                 nextId, accepted, attempts, lastBackoff, completions, owner, thrown>>

(* -------------------------- queue processor -------------------------- *)
\* What one processQueue instance reads and writes: its wallet's registry
\* entry, its locals, and the record of callback invocations and removals.
Cur(a) ==
  [stats |-> relayerStats[a], queue |-> txQueues[a], flag |-> processingFlags[a],
   pc |-> pc[a], inst |-> instances[a], cf |-> consecutiveFailures[a],
   txd |-> txData[a], nonce |-> txNonce[a], timers |-> timers[a],
   backoff |-> backoffTime[a], detached |-> detached[a],
   compl |-> completions, outc |-> outcome, thrown |-> thrown, att |-> attempts,
   lastb |-> lastBackoff]

\* a processor that keeps one processing flag for the whole pool
ApplyOneFlag(a, s) ==
  /\ relayerStats' = [relayerStats EXCEPT ![a] =
        IF detached[a] THEN [@ EXCEPT !.currentNonce = s.stats.currentNonce]
        ELSE s.stats]
  /\ detached' = [detached EXCEPT ![a] = s.detached]
  /\ txQueues' = [txQueues EXCEPT ![a] = s.queue]
  /\ processingFlags' = [b \in Addr |-> s.flag]
  /\ pc' = [pc EXCEPT ![a] = s.pc]
  /\ instances' = [instances EXCEPT ![a] = s.inst]
  /\ consecutiveFailures' = [consecutiveFailures EXCEPT ![a] = s.cf]
  /\ txData' = [txData EXCEPT ![a] = s.txd]
  /\ txNonce' = [txNonce EXCEPT ![a] = s.nonce]
  /\ timers' = [timers EXCEPT ![a] = s.timers]
  /\ backoffTime' = [backoffTime EXCEPT ![a] = s.backoff]
  /\ completions' = s.compl
  /\ outcome' = s.outc
  /\ thrown' = s.thrown
  /\ attempts' = s.att
  /\ lastBackoff' = s.lastb

\* `stats` is captured once per iteration: when initialize has replaced the
\* record since, what the iteration writes through `stats` is lost, and only
\* the writes through this.relayerStats[relayerAddress] (the nonce) are seen
Apply(a, s) ==
  /\ relayerStats' = [relayerStats EXCEPT ![a] =
        IF detached[a] THEN [@ EXCEPT !.currentNonce = s.stats.currentNonce]
        ELSE s.stats]
  /\ detached' = [detached EXCEPT ![a] = s.detached]
  /\ txQueues' = [txQueues EXCEPT ![a] = s.queue]
  /\ processingFlags' = [processingFlags EXCEPT ![a] = s.flag]
  /\ pc' = [pc EXCEPT ![a] = s.pc]
  /\ instances' = [instances EXCEPT ![a] = s.inst]
  /\ consecutiveFailures' = [consecutiveFailures EXCEPT ![a] = s.cf]
  /\ txData' = [txData EXCEPT ![a] = s.txd]
  /\ txNonce' = [txNonce EXCEPT ![a] = s.nonce]
  /\ timers' = [timers EXCEPT ![a] = s.timers]
  /\ backoffTime' = [backoffTime EXCEPT ![a] = s.backoff]
  /\ completions' = s.compl
  /\ outcome' = s.outc
  /\ thrown' = s.thrown
  /\ attempts' = s.att
  /\ lastBackoff' = s.lastb

\* the synchronous head of processQueue: guard, flag, consecutiveFailures = 0
StartProcessing(s) ==
  [s EXCEPT !.flag = TRUE, !.pc = "refresh", !.inst = @ + 1, !.cf = 0]

\* a finally block that clears the flag only when the queue has drained
FinallyFlagOnDrain(s) ==
  [s EXCEPT !.flag = Len(s.queue) > 0, !.pc = "idle", !.inst = @ - 1, !.txd = NoTx,
            !.nonce = 0, !.detached = FALSE,
            !.timers = IF Len(s.queue) > 0 THEN @ + 1 ELSE @]

\* a finally block that clears the flag and schedules no restart
FinallyNoRestart(s) ==
  [s EXCEPT !.flag = FALSE, !.pc = "idle", !.inst = @ - 1, !.txd = NoTx,
            !.nonce = 0, !.detached = FALSE]

\* the finally block: clear the flag, reschedule when requests remain
Finally(s) ==
  [s EXCEPT !.flag = FALSE, !.pc = "idle", !.inst = @ - 1, !.txd = NoTx,
            !.nonce = 0, !.detached = FALSE,
            !.timers = IF Len(s.queue) > 0 THEN @ + 1 ELSE @]

\* the while condition, reached by continue or at the end of the loop body
LoopOrExit(s) ==
  IF Len(s.queue) > 0
  THEN [s EXCEPT !.pc = "refresh", !.txd = NoTx, !.nonce = 0, !.detached = FALSE]
  ELSE Finally(s)

\* this.onTransactionComplete({... success ...}) behind its null check
Notify(s, id, success) ==
  IF onTransactionComplete
  THEN [s EXCEPT !.compl[id] = IF Len(@) < MaxNotes THEN Append(@, success) ELSE @]
  ELSE s

\* whether the invocation Notify(s, id, _) is one that raises: never ("no"),
\* within the budget of the run ("counted"), or whenever invoked ("free")
Raises(s, raises) ==
  /\ raises # "no"
  /\ onTransactionComplete
  /\ raises = "counted" => s.thrown < MaxRaises
  /\ s.timers < MaxTimers

\* the invocation raised
Thrown(s) == [s EXCEPT !.thrown = IF @ < MaxRaises THEN @ + 1 ELSE @]

\* queue.shift() without the update of stats.queueLength
ShiftNoLength(s, how) ==
  IF s.queue = <<>> THEN s
  ELSE [s EXCEPT !.queue = Tail(@), !.outc[Head(s.queue).id] = how]

\* queue.shift() and stats.queueLength = queue.length; shift() on an empty
\* queue removes nothing, and the head it removes is whatever request is there
Shift(s, how) ==
  IF s.queue = <<>> THEN [s EXCEPT !.stats.queueLength = 0]
  ELSE [s EXCEPT !.queue = Tail(@), !.stats.queueLength = Len(Tail(s.queue)),
                 !.outc[Head(s.queue).id] =
                    IF s.txd = NoTx \/ s.txd.id = Head(s.queue).id THEN how
                    ELSE "displaced"]

\* peeking the head and the retry budget check; with nothing at the head
\* txData.retryCount raises, outside the inner try
HeadCheck(s, raises) ==
  LET head == Head(s.queue) IN
  IF s.queue = <<>> THEN Finally(s)
  ELSE IF head.retryCount >= maxRetries
  THEN IF Raises(s, raises)
       THEN Finally(Thrown(Notify(s, head.id, FALSE)))
       ELSE LoopOrExit(Shift(Notify(s, head.id, FALSE), "exhausted"))
  ELSE [s EXCEPT !.txd = head, !.pc = "attempt",
                 !.att[head.id] = IF @ <= maxRetries THEN @ + 1 ELSE @]

\* a back-off that doubles without a cap
BackoffTimeNoCap(retryCount) == BackoffBase * 2 ^ retryCount

\* a cap taken as a remainder instead of a minimum
BackoffTimeWraps(retryCount) == (BackoffBase * 2 ^ retryCount) % BackoffCap

\* Math.min(2000 * Math.pow(2, retryCount), 30000)
BackoffTime(retryCount) ==
  IF BackoffBase * 2 ^ retryCount < BackoffCap
  THEN BackoffBase * 2 ^ retryCount ELSE BackoffCap

\* the head of the catch block, before the classification: failure stats and
\* this.txQueues[relayerAddress][0].retryCount = retryCount + 1
CountFailure(s) ==
  [s EXCEPT !.stats.totalTxSent = @ + 1, !.stats.totalTxFailed = @ + 1,
            !.queue = IF @ = <<>> THEN @
                      ELSE [@ EXCEPT ![1].retryCount = s.txd.retryCount + 1]]

\* the catch block without totalTxFailed++
HandleFailureNoFailed(s, permanent, raises) ==
  LET s1 == [s EXCEPT !.stats.totalTxSent = @ + 1,
                      !.queue = IF @ = <<>> THEN @
                                ELSE [@ EXCEPT ![1].retryCount = s.txd.retryCount + 1]]
  IN  IF s.queue = <<>> THEN Finally(s1)
      ELSE IF permanent
      THEN LoopOrExit(Shift(Notify(s1, s.txd.id, FALSE), "permanent"))
      ELSE [s1 EXCEPT !.cf = @ + 1, !.pc = "backoff", !.txd = NoTx, !.nonce = 0,
                      !.backoff = BackoffTime(s.txd.retryCount),
                      !.lastb[s.txd.id] = BackoffTime(s.txd.retryCount)]

\* the inner catch block after its optional nonce refresh: stats, retryCount,
\* classification, then removal (permanent) or back-off (transient); the
\* retryCount assignment raises out of the catch block when the queue is empty
HandleFailure(s, permanent, raises) ==
  LET s1 == CountFailure(s)
  IN  IF s.queue = <<>> THEN Finally(s1)
      ELSE IF permanent
      THEN IF Raises(s1, raises)
           THEN Finally(Thrown(Notify(s1, s.txd.id, FALSE)))
           ELSE LoopOrExit(Shift(Notify(s1, s.txd.id, FALSE), "permanent"))
      ELSE [s1 EXCEPT !.cf = @ + 1, !.pc = "backoff", !.txd = NoTx, !.nonce = 0,
                      !.backoff = BackoffTime(s.txd.retryCount),
                      !.lastb[s.txd.id] = BackoffTime(s.txd.retryCount)]

\* the statements after the confirmation: stats, callback, shift
HandleSuccess(s, raises) ==
  LET s1 == [s EXCEPT !.stats.totalTxSent = @ + 1, !.stats.totalTxSuccess = @ + 1,
                      !.stats.tokensTransferred = @ + s.txd.pointsToMint]
  IN  IF Raises(s1, raises)
      THEN HandleFailure(Thrown(Notify(s1, s.txd.id, TRUE)), FALSE, "no")
      ELSE [Shift(Notify(s1, s.txd.id, TRUE), "success") EXCEPT
              !.cf = 0, !.pc = "postDelay", !.txd = NoTx, !.nonce = 0]

\* the top of the loop without the cooldown test
RefreshNonceNoCooldown(a, readOk, raises) ==
  /\ pc[a] = "refresh"
  /\ LET s == Cur(a)
         s1 == IF readOk THEN [s EXCEPT !.stats.currentNonce = PendingCount(a)] ELSE s
     IN  Apply(a, HeadCheck(s1, raises))
  /\ UNCHANGED <<registry, feeVars, isInitialized, onTransactionComplete, relayers, ledgerVars, nextId,
                 lastCall, accepted, owner>>

\* top of the loop: pending-mode nonce refresh (best effort), then the cooldown
\* test and the head check
RefreshNonce(a, readOk, raises) ==
  /\ pc[a] = "refresh"
  /\ LET s == Cur(a)
         s1 == IF readOk THEN [s EXCEPT !.stats.currentNonce = PendingCount(a)] ELSE s
     IN  Apply(a, IF s1.cf >= CooldownThreshold
                  THEN [s1 EXCEPT !.pc = "cooldown"]
                  ELSE HeadCheck(s1, raises))
  /\ UNCHANGED <<registry, feeVars, isInitialized, onTransactionComplete, relayers, ledgerVars, nextId,
                 lastCall, accepted, owner>>

\* the cooldown pause, the latest-mode refresh after it, and the head check
Cooldown(a, readOk, raises) ==
  /\ pc[a] = "cooldown"
  /\ LET s == Cur(a)
         s1 == IF readOk THEN [s EXCEPT !.stats.currentNonce = LatestCount(a)] ELSE s
     IN  Apply(a, HeadCheck([s1 EXCEPT !.cf = 0], raises))
  /\ UNCHANGED <<registry, feeVars, isInitialized, onTransactionComplete, relayers, ledgerVars, nextId,
                 lastCall, accepted, owner>>

\* error messages as word sequences; error.message.includes(key), word by word
\* and case-sensitive
Includes(msg, key) ==
  \E i \in 0 .. (Len(msg) - Len(key)) : SubSeq(msg, i + 1, i + Len(key)) = key

\* the isPermanentError expression of the catch block
isPermanentError(msg) ==
  \/ Includes(msg, <<"insufficient", "funds">>)
  \/ Includes(msg, <<"execution", "reverted">>)
  \/ Includes(msg, <<"cannot", "estimate", "gas">>)
  \/ Includes(msg, <<"invalid", "address">>)

\* what the balance check throws: its own error when the treasury balance is
\* below the amount, or the error of the failed balanceOf read
BalanceError(res) ==
  IF res = "insufficient"
  THEN <<"Insufficient", "treasury", "balance.", "Have", "0.0,", "need", "1.0">>
  ELSE <<"network", "error">>

\* the balance check on the state of a processor, and the catch block for its
\* error
BalanceChecked(s, res) ==
  IF res = "ok" THEN [s EXCEPT !.pc = "submit"]
  ELSE HandleFailure(s, isPermanentError(BalanceError(res)), "no")

\* the balance check of a processor whose delays block the whole event loop:
\* it cannot go on while another wallet sits in a pause
CheckBalanceBlocked(a, res) ==
  /\ \A b \in Addr : pc[b] \notin {"cooldown", "backoff"}
  /\ pc[a] = "attempt"
  /\ res \in {"ok", "insufficient", "error"}
  /\ Apply(a, BalanceChecked(Cur(a), res))
  /\ UNCHANGED <<registry, feeVars, isInitialized, onTransactionComplete, relayers, ledgerVars, nextId,
                 lastCall, accepted, owner>>

\* delay(TX_DELAY_MS) and the treasury balance check
CheckBalance(a, res) ==
  /\ pc[a] = "attempt"
  /\ res \in {"ok", "insufficient", "error"}
  /\ Apply(a, BalanceChecked(Cur(a), res))
  /\ UNCHANGED <<registry, feeVars, isInitialized, onTransactionComplete, relayers, ledgerVars, nextId,
                 lastCall, accepted, owner>>

\* a submission that counts the nonce up before the ledger has answered
SubmitCountsFirst(a, res, raises) ==
  /\ pc[a] = "submit"
  /\ res \in {"accept", "nonce", "permanent", "other"}
  /\ LET s0 == Cur(a)
         n == s0.stats.currentNonce
         s == [s0 EXCEPT !.stats.currentNonce = n + 1]
         id == s.txd.id
     IN  /\ res = "accept" =>
               /\ s.txd.pointsToMint > 0
               /\ n >= latest[a]
               /\ n \in mempool[a] \/ Cardinality(mempool[a]) < MaxPending
         /\ res = "nonce" => n < latest[a]
         /\ IF res = "accept"
            THEN /\ mempool' = [mempool EXCEPT ![a] = @ \cup {n}]
                 /\ accepted' = [accepted EXCEPT ![id] = IF @ < 2 THEN @ + 1 ELSE @]
                 /\ Apply(a, [s EXCEPT !.nonce = n, !.pc = "wait"])
            ELSE /\ UNCHANGED <<mempool, accepted>>
                 /\ Apply(a, IF res = "nonce" THEN [s EXCEPT !.pc = "nonceErr"]
                             ELSE HandleFailure(s, res = "permanent", raises))
  /\ UNCHANGED <<registry, feeVars, isInitialized, onTransactionComplete, relayers, latest, nextId,
                 lastCall, owner>>

\* getFeeData and transferFrom(..., {nonce: currentNonce}); currentNonce++
\* runs only when the call returned a transaction
Submit(a, res, raises) ==
  /\ pc[a] = "submit"
  /\ res \in {"accept", "nonce", "permanent", "other"}
  /\ LET s == Cur(a)
         n == s.stats.currentNonce
         id == s.txd.id
     IN  /\ res = "accept" =>
               /\ s.txd.pointsToMint > 0
               /\ n >= latest[a]
               /\ n \in mempool[a] \/ Cardinality(mempool[a]) < MaxPending
         /\ res = "nonce" => n < latest[a]
         /\ IF res = "accept"
            THEN /\ mempool' = [mempool EXCEPT ![a] = @ \cup {n}]
                 /\ accepted' = [accepted EXCEPT ![id] = IF @ < 2 THEN @ + 1 ELSE @]
                 /\ Apply(a, [s EXCEPT !.stats.currentNonce = n + 1, !.nonce = n,
                                       !.pc = "wait"])
            ELSE /\ UNCHANGED <<mempool, accepted>>
                 /\ Apply(a, IF res = "nonce" THEN [s EXCEPT !.pc = "nonceErr"]
                             ELSE HandleFailure(s, res = "permanent", raises))
  /\ UNCHANGED <<registry, feeVars, isInitialized, onTransactionComplete, relayers, latest, nextId,
                 lastCall, owner>>

\* Promise.race([tx.wait(), 60 s timeout])
Wait(a, res, raises) ==
  /\ pc[a] = "wait"
  /\ res \in {"confirmed", "timeout"}
  /\ res = "confirmed" => txNonce[a] < latest[a]
  /\ Apply(a, IF res = "confirmed" THEN HandleSuccess(Cur(a), raises)
              ELSE HandleFailure(Cur(a), FALSE, "no"))
  /\ UNCHANGED <<registry, feeVars, isInitialized, onTransactionComplete, relayers, ledgerVars, nextId,
                 lastCall, accepted, owner>>

\* the latest-mode refresh of the catch block on a nonce error, then the rest of
\* the catch block
NonceErrRefresh(a, readOk) ==
  /\ pc[a] = "nonceErr"
  /\ LET s == Cur(a)
         s1 == IF readOk /\ ~s.detached
               THEN [s EXCEPT !.stats.currentNonce = LatestCount(a)] ELSE s
     IN  Apply(a, HandleFailure(s1, FALSE, "no"))
  /\ UNCHANGED <<registry, feeVars, isInitialized, onTransactionComplete, relayers, ledgerVars, nextId,
                 lastCall, accepted, owner>>

\* delay(backoffTime) after a transient failure, back to the while condition
Backoff(a) ==
  /\ pc[a] = "backoff"
  /\ Apply(a, LoopOrExit([Cur(a) EXCEPT !.backoff = 0]))
  /\ UNCHANGED <<registry, feeVars, isInitialized, onTransactionComplete, relayers, ledgerVars, nextId,
                 lastCall, accepted, owner>>

\* delay(TX_DELAY_MS) after a success, back to the while condition
PostDelay(a) ==
  /\ pc[a] = "postDelay"
  /\ Apply(a, LoopOrExit(Cur(a)))
  /\ UNCHANGED <<registry, feeVars, isInitialized, onTransactionComplete, relayers, ledgerVars, nextId,
                 lastCall, accepted, owner>>

\* the restart the finally block scheduled: processQueue(relayer) from a timer
TimerFires(a) ==
  /\ timers[a] > 0
  /\ LET s == [Cur(a) EXCEPT !.timers = @ - 1]
     IN  Apply(a, IF CanStart(a, txQueues) THEN StartProcessing(s) ELSE s)
  /\ UNCHANGED <<registry, feeVars, isInitialized, onTransactionComplete, relayers, ledgerVars, nextId,
                 lastCall, accepted, owner>>

\* startProcessingAllQueues(): processQueue for every idle wallet with requests
startProcessingAllQueues ==
  /\ isInitialized
  /\ \E a \in Pool : CanStart(a, txQueues)
  /\ LET go(a) == a \in Pool /\ CanStart(a, txQueues)
     IN  /\ processingFlags' = [a \in Addr |-> IF go(a) THEN TRUE ELSE processingFlags[a]]
         /\ pc' = [a \in Addr |-> IF go(a) THEN "refresh" ELSE pc[a]]
         /\ instances' = [a \in Addr |-> IF go(a) THEN instances[a] + 1 ELSE instances[a]]
         /\ consecutiveFailures' =
              [a \in Addr |-> IF go(a) THEN 0 ELSE consecutiveFailures[a]]
  /\ UNCHANGED <<registry, feeVars, isInitialized, onTransactionComplete, relayers, relayerStats,
                 txQueues, txData, txNonce, timers, backoffTime, detached, ledgerVars, nextId,
                 lastCall, histVars>>

\* the cooldown of the minting variant: the mined count is read with no try
\* around it, so a read that fails leaves the loop through the outermost catch
\* and the finally block
CooldownUnguarded(a, readOk, raises) ==
  /\ pc[a] = "cooldown"
  /\ LET s == Cur(a)
         s1 == [s EXCEPT !.stats.currentNonce = LatestCount(a)]
     IN  Apply(a, IF readOk THEN HeadCheck([s1 EXCEPT !.cf = 0], raises)
                  ELSE Finally(s))
  /\ UNCHANGED <<registry, feeVars, isInitialized, onTransactionComplete, relayers, ledgerVars, nextId,
                 lastCall, accepted, owner>>

(* ------------------------------ ledger ------------------------------- *)
\* the ledger confirms the pending transaction that carries the next nonce
Mine(a) ==
  /\ latest[a] \in mempool[a]
  /\ mempool' = [mempool EXCEPT ![a] = @ \ {latest[a]}]
  /\ latest' = [latest EXCEPT ![a] = @ + 1]
  /\ UNCHANGED <<registry, feeVars, isInitialized, onTransactionComplete, relayers, relayerStats,
                 txQueues, processingFlags, procVars, nextId, lastCall, histVars>>

\* the wallet that signs what the processor of wallet a submits: in relayer.js
\* the relayer's own wallet (tokenContract.connect(relayerWallet)), in the
\* minting variant the owner wallet the contract was created with
ownerWallet == 0
Variants == {"transfer", "mint"}
SignerOf(variant, a) == IF variant = "mint" THEN ownerWallet ELSE a

(* --------------------------- specifications -------------------------- *)
\* one step of the processQueue instance of wallet a
Processor(a, raises) ==
  \/ \E ok \in BOOLEAN : RefreshNonce(a, ok, raises)
  \/ \E ok \in BOOLEAN : Cooldown(a, ok, raises)
  \/ \E res \in {"ok", "insufficient", "error"} : CheckBalance(a, res)
  \/ \E res \in {"accept", "nonce", "permanent", "other"} : Submit(a, res, raises)
  \/ \E res \in {"confirmed", "timeout"} : Wait(a, res, raises)
  \/ \E ok \in BOOLEAN : NonceErrRefresh(a, ok)
  \/ Backoff(a)
  \/ PostDelay(a)

\* the subsystem as the server drives it: a successful initialize that finds
\* one of the given numbers of valid keys, reward requests, the processors and
\* the ledger; R is how the completion callback may behave when invoked
Drive(keys, R) ==
  \/ \E n \in keys : Initialize(TRUE, n)
  \/ queueTransaction("0xA", 1)
  \/ \E a \in Pool, ok \in BOOLEAN, raises \in R : RefreshNonce(a, ok, raises)
  \/ \E a \in Pool, ok \in BOOLEAN, raises \in R : Cooldown(a, ok, raises)
  \/ \E a \in Pool, res \in {"ok", "insufficient", "error"} : CheckBalance(a, res)
  \/ \E a \in Pool, res \in {"accept", "nonce", "permanent", "other"}, raises \in R :
        Submit(a, res, raises)
  \/ \E a \in Pool, res \in {"confirmed", "timeout"}, raises \in R : Wait(a, res, raises)
  \/ \E a \in Pool, ok \in BOOLEAN : NonceErrRefresh(a, ok)
  \/ \E a \in Pool : Backoff(a)
  \/ \E a \in Pool : PostDelay(a)
  \/ \E a \in Pool : Mine(a)

\* the completion callback keeps its contract: it never raises
Next == Drive(1 .. NumKeys, {"no"})

Spec == Init /\ [][Next]_vars

\* one wallet, with a completion callback that may raise, which is what makes
\* the finally block schedule restarts, and with the manual queue start
NextRaise ==
  \/ Drive({1}, {"no", "counted"})
  \/ \E a \in Pool : TimerFires(a)
  \/ startProcessingAllQueues

SpecRaise == Init /\ [][NextRaise]_vars

\* the states the inbound calls are tried on: the constructed subsystem, or an
\* initialized pool of PoolMax wallets, any of them deactivated, with up to
\* MaxQLen requests queued on each and a processor running where there are any
QueueOf(a, len) ==
  [i \in 1 .. len |-> [id |-> MaxRequests + (a - 1) * MaxQLen + i,
                       pointsToMint |-> 1, retryCount |-> 0]]

InitApi ==
  \/ Init
  \/ \E lens \in [1 .. PoolMax -> 0 .. MaxQLen], act \in [1 .. PoolMax -> BOOLEAN] :
       LET in(a) == a \in 1 .. PoolMax
           len(a) == IF in(a) THEN lens[a] ELSE 0
       IN  /\ isInitialized = TRUE
           /\ onTransactionComplete = TRUE
           /\ relayers = [i \in 1 .. PoolMax |-> i]
           /\ relayerStats = [a \in Addr |->
                [ZeroStats(0) EXCEPT !.active = IF in(a) THEN act[a] ELSE TRUE,
                                     !.queueLength = len(a)]]
           /\ txQueues = [a \in Addr |-> QueueOf(a, len(a))]
           /\ processingFlags = [a \in Addr |-> len(a) > 0]
           /\ pc = [a \in Addr |-> IF len(a) > 0 THEN "refresh" ELSE "idle"]
           /\ instances = [a \in Addr |-> IF len(a) > 0 THEN 1 ELSE 0]
           /\ consecutiveFailures = [a \in Addr |-> 0]
           /\ txData = [a \in Addr |-> NoTx]
           /\ txNonce = [a \in Addr |-> 0]
           /\ timers = [a \in Addr |-> 0]
           /\ backoffTime = [a \in Addr |-> 0]
           /\ detached = [a \in Addr |-> FALSE]
           /\ registry = [a \in Addr |-> IF in(a) THEN "present" ELSE "absent"]
           /\ latest = [a \in Addr |-> 0]
           /\ mempool = [a \in Addr |-> {}]
           /\ nextId = 1
           /\ lastCall = NoCall
           /\ accepted = [q \in ReqIds |-> 0]
           /\ attempts = [q \in ReqIds |-> 0]
           /\ lastBackoff = [q \in ReqIds |-> 0]
           /\ completions = [q \in ReqIds |-> <<>>]
           /\ outcome = [q \in ReqIds |-> "none"]
           /\ owner = [q \in ReqIds |->
                IF q > MaxRequests THEN ((q - MaxRequests - 1) \div MaxQLen) + 1 ELSE 0]
           /\ thrown = 0
           /\ FeesIdle

\* the inbound calls alone, with every input
NextApi ==
  \/ \E ok \in BOOLEAN, n \in 0 .. NumKeys : Initialize(ok, n)
  \/ \E w \in Recipients, p \in Amounts : queueTransaction(w, p)
  \/ \E a \in Addr, b \in BOOLEAN : setRelayerStatus(a, b)

SpecApi == InitApi /\ [][NextApi]_vars

\* one wallet whose pending ledger calls and timers all eventually return; the
\* completion callback may raise, so that the restart timers are part of it
NextLive == Drive({1}, {"no", "free"}) \/ \E a \in Pool : TimerFires(a)

Fairness ==
  \A a \in Addr : WF_vars(Processor(a, "no") \/ Processor(a, "free") \/ TimerFires(a))

FairSpec == Init /\ [][NextLive]_vars /\ Fairness

(* ------------------------------ claims ------------------------------- *)
\* the highest nonce among the submissions of wallet a the ledger has accepted
\* so far: each of them is confirmed or still in the mempool
MaxUsed(a) ==
  LET used == mempool[a] \cup {latest[a] - 1}
  IN  CHOOSE n \in used : \A m \in used : m <= n

\* the step is one in which the ledger accepts a submission of wallet a
AcceptStep(a) == pc[a] = "submit" /\ pc'[a] = "wait"

\* C1: the nonces carried by the successive accepted submissions of one wallet
\* are strictly increasing, so no two submissions of a wallet carry the same
\* nonce
C1_NoncesStrictlyIncreasing ==
  [][\A a \in Addr : AcceptStep(a) => txNonce'[a] > MaxUsed(a)]_vars

\* C2: no request is double-processed: the ledger accepts at most one transfer
\* submission for a request over its whole lifetime, retries after a
\* confirmation timeout included
C2_NoDoubleProcessing == \A q \in ReqIds : accepted[q] <= 1

\* C3: at most one processQueue instance is active per wallet, whatever the
\* interleaving of enqueues, manual starts and timer restarts: an instance
\* starts only when the flag is false and the queue is non-empty, and the flag
\* is set in the same step
C3_OneProcessorPerIdentity ==
  /\ [](\A a \in Addr : instances[a] <= 1)
  /\ [][\A a \in Addr : instances'[a] > instances[a] =>
          /\ ~processingFlags[a]
          /\ Len(txQueues'[a]) > 0
          /\ processingFlags'[a]]_vars

\* a restart is scheduled for a wallet whose processor is already running again
\* with two requests queued: the timer will meet the entry guard
C3_Witness ==
  \E a \in Addr : timers[a] > 0 /\ instances[a] = 1 /\ Len(txQueues[a]) = 2

\* C4: every request that has left its queue (success, permanent failure or
\* retry exhaustion) caused exactly one invocation of the completion callback
C4_ExactlyOneNotification ==
  \A q \in ReqIds : outcome[q] # "none" => Len(completions[q]) = 1

\* the step is a queueTransaction call (a repeated rejected call changes nothing)
IsEnqueueStep ==
  lastCall'.op = "queueTransaction" /\ (lastCall' # lastCall \/ nextId' # nextId)

\* position of wallet r in the pool
PoolIndex(r) == CHOOSE i \in 1 .. Len(relayers) : relayers[i] = r

\* C5: an admitted request is appended to the active wallet whose queue is
\* shortest at the call, the earliest in pool order among equals; that queue
\* grows by one and every other queue is unchanged
C5_ShortestQueueFirst ==
  [][IsEnqueueStep /\ lastCall'.ret =>
       \E r \in Pool :
         /\ relayerStats[r].active
         /\ \A b \in Pool : relayerStats[b].active =>
              \/ Len(txQueues[r]) < Len(txQueues[b])
              \/ Len(txQueues[r]) = Len(txQueues[b]) /\ PoolIndex(r) <= PoolIndex(b)
         /\ Len(txQueues'[r]) = Len(txQueues[r]) + 1
         /\ txQueues'[r][Len(txQueues'[r])].id = nextId
         /\ SubSeq(txQueues'[r], 1, Len(txQueues[r])) = txQueues[r]
         /\ relayerStats'[r].queueLength = Len(txQueues[r]) + 1
         /\ \A b \in Addr \ {r} : txQueues'[b] = txQueues[b]]_vars

\* three active wallets with queue lengths 2, 0, 1: the request went to the
\* second, whose queue length is now 1
C5_Witness ==
  /\ lastCall.op = "queueTransaction" /\ lastCall.ret
  /\ relayers = <<1, 2, 3>>
  /\ \A a \in 1 .. 3 : relayerStats[a].active
  /\ Len(txQueues[1]) = 2 /\ Len(txQueues[2]) = 1 /\ Len(txQueues[3]) = 1
  /\ nextId = 2 /\ txQueues[2][1].id = 1

\* the requests a processor has its hands on
InHand == {"attempt", "submit", "wait", "nonceErr"}

\* C6: within one wallet requests are handled in the order of their enqueue:
\* the request a processor works on is the head of the queue, every request
\* enqueued earlier on that wallet has left the queue with its outcome, and
\* only the head of a queue has ever been tried
C6_FifoPerIdentity ==
  \A a \in Addr :
    /\ pc[a] \in InHand =>
         /\ Len(txQueues[a]) > 0 /\ Head(txQueues[a]).id = txData[a].id
         /\ \A q \in ReqIds : (q < txData[a].id /\ owner[q] = a) => outcome[q] # "none"
    /\ \A i \in 2 .. Len(txQueues[a]) :
         txQueues[a][i].retryCount = 0 /\ accepted[txQueues[a][i].id] = 0
    /\ \A i, j \in 1 .. Len(txQueues[a]) : i < j => txQueues[a][i].id < txQueues[a][j].id

\* the second request of a wallet is being submitted after the first one left
C6_Witness ==
  \E a \in Addr :
    /\ pc[a] = "submit" /\ txData[a].id = 2
    /\ owner[1] = a /\ owner[2] = a /\ outcome[1] # "none"

\* request q is the head of its queue with its retry budget used up
AtBudget(q) ==
  /\ owner[q] # 0 /\ outcome[q] = "none"
  /\ LET queue == txQueues[owner[q]]
     IN  Len(queue) > 0 /\ Head(queue).id = q /\ Head(queue).retryCount >= maxRetries

\* C7: a request whose retryCount has reached the budget of 5 is never in a
\* processor's hands again: the one step that invokes the callback for it, with
\* success = false, also removes it from the queue and submits nothing, and
\* the callback is not invoked for it afterwards
C7_RetryBudget ==
  /\ [](\A a \in Addr :
          /\ pc[a] \in InHand => txData[a].retryCount < maxRetries
          /\ \A i \in 1 .. Len(txQueues[a]) : txQueues[a][i].retryCount <= maxRetries)
  /\ [][\A q \in ReqIds :
          /\ AtBudget(q) =>
               \/ completions'[q] = completions[q] /\ outcome'[q] = "none"
               \/ /\ outcome'[q] = "exhausted"
                  /\ completions'[q] = Append(completions[q], FALSE)
                  /\ txQueues'[owner[q]] = Tail(txQueues[owner[q]])
                  /\ accepted' = accepted /\ mempool' = mempool
          /\ outcome[q] = "none" /\ outcome'[q] = "exhausted" => AtBudget(q)
          /\ outcome[q] = "exhausted" =>
               completions'[q] = completions[q] /\ outcome'[q] = "exhausted"]_vars

\* C8: for every wallet totalTxSent = totalTxSuccess + totalTxFailed, in every
\* state
C8_SentIsSuccessPlusFailed ==
  \A a \in Addr :
    relayerStats[a].totalTxSent =
      relayerStats[a].totalTxSuccess + relayerStats[a].totalTxFailed

\* a wallet with a success, transient failures and a permanent failure behind it
C8_Witness ==
  \E a \in Addr, q \in ReqIds :
    /\ relayerStats[a].totalTxSuccess >= 1 /\ relayerStats[a].totalTxFailed >= 2
    /\ owner[q] = a /\ outcome[q] = "permanent"

\* C9: when every ledger call and timer returns, eventually and for good every
\* admitted request has left its queue with an outcome and every processor is
\* idle with an empty queue and a cleared flag
C9_EveryRequestDrains ==
  <>[](/\ \A q \in ReqIds : owner[q] # 0 => outcome[q] # "none"
       /\ \A a \in Addr :
            txQueues[a] = <<>> /\ ~processingFlags[a] /\ pc[a] = "idle")

\* C10: queueTransaction on an uninitialized subsystem, with an empty
\* recipient or with an amount that is not strictly positive returns false and
\* changes no queue, stats record or processing flag
C10_InvalidRequestRejected ==
  [][(IsEnqueueStep /\ (\/ ~isInitialized
                        \/ lastCall'.walletAddress = ""
                        \/ lastCall'.pointsToMint <= 0)) =>
       /\ lastCall'.ret = FALSE
       /\ UNCHANGED <<txQueues, relayerStats, processingFlags>>]_vars

\* C11: when no wallet of the pool is active, queueTransaction returns false,
\* appends to no queue and starts no processor; and a queue that receives a
\* request always belongs to an active wallet of the pool, whatever the length
\* of the inactive wallets' queues
C11_NoActiveRelayer ==
  [][IsEnqueueStep =>
       /\ (\A a \in Pool : ~relayerStats[a].active) =>
            /\ lastCall'.ret = FALSE
            /\ UNCHANGED <<txQueues, relayerStats, processingFlags, pc, instances>>
       /\ \A a \in Addr :
            txQueues'[a] # txQueues[a] => a \in Pool /\ relayerStats[a].active]_vars

\* a valid request was refused by an initialized pool with no active wallet,
\* one of which has an empty queue
C11_Witness ==
  /\ isInitialized /\ Len(relayers) > 0
  /\ \A a \in Pool : ~relayerStats[a].active
  /\ \E a \in Pool : Len(txQueues[a]) = 0
  /\ lastCall = [op |-> "queueTransaction", walletAddress |-> "0xA",
                 pointsToMint |-> 1, ret |-> FALSE]

\* the catch block of wallet a took its permanent branch for a failed submission
PermanentStep(a) ==
  pc[a] = "submit" /\ pc'[a] \notin {"submit", "wait", "nonceErr", "backoff"}

\* C12: when a submission fails with a permanent condition ("insufficient
\* funds"), that step invokes the callback once with success = false and
\* removes the request with nothing submitted, the request is never queued or
\* tried again, and the retryCount it carries when it is reported and removed
\* is its value from before the failure
C12_PermanentFailureNoRetry ==
  /\ [][\A a \in Addr : PermanentStep(a) =>
          LET id == txData[a].id IN
          /\ outcome'[id] = "permanent"
          /\ completions'[id] = Append(completions[id], FALSE)
          /\ txQueues'[a] = Tail(txQueues[a])
          /\ accepted' = accepted /\ mempool' = mempool
          /\ CountFailure(Cur(a)).queue[1].retryCount = txData[a].retryCount]_vars
  /\ [](\A q \in ReqIds : outcome[q] # "none" =>
          \A a \in Addr : /\ txData[a].id # q
                          /\ \A i \in 1 .. Len(txQueues[a]) : txQueues[a][i].id # q)

\* C13: whenever a processor is about to check the treasury balance for its
\* head request and finds it below the amount, the request ends there as a
\* permanent failure: one callback invocation with success = false, removal
\* from the queue, and no back-off before the next iteration
C13_TreasuryShortIsPermanent ==
  \A a \in Addr : pc[a] = "attempt" =>
    LET id == txData[a].id
        t == BalanceChecked(Cur(a), "insufficient")
    IN  /\ t.outc[id] = "permanent"
        /\ t.compl[id] = Append(completions[id], FALSE)
        /\ t.queue = Tail(txQueues[a])
        /\ t.pc # "backoff"

\* the confirmation wait of wallet a timed out
TimeoutStep(a) ==
  pc[a] = "wait" /\ pc'[a] = "backoff" /\ completions' = completions

\* C14: a confirmation timeout is a transient failure: the request stays at the
\* head of its queue with its retryCount one higher, nothing is reported, and
\* the processor is suspended for min(2000 * 2^retryCount, 30000) ms, retryCount
\* being the value before the failure, and returns to the top of the loop for
\* the same request only after that delay
C14_TimeoutIsTransient ==
  /\ [][\A a \in Addr : TimeoutStep(a) =>
          /\ Len(txQueues'[a]) = Len(txQueues[a])
          /\ Head(txQueues'[a]) =
               [txData[a] EXCEPT !.retryCount = txData[a].retryCount + 1]
          /\ Tail(txQueues'[a]) = Tail(txQueues[a])
          /\ outcome' = outcome
          /\ consecutiveFailures'[a] = consecutiveFailures[a] + 1
          /\ LET k == txData[a].retryCount
             IN  backoffTime'[a] =
                   IF 2000 * 2 ^ k < 30000 THEN 2000 * 2 ^ k ELSE 30000]_vars
  /\ [][\A a \in Addr : pc[a] = "backoff" /\ pc'[a] # "backoff" =>
          /\ backoffTime[a] > 0
          /\ pc'[a] = "refresh"
          /\ txQueues'[a] = txQueues[a]]_vars

\* a fifth attempt timed out: the back-off is at its cap
C14_Witness ==
  \E a \in Addr :
    /\ pc[a] = "backoff" /\ backoffTime[a] = 30000
    /\ Len(txQueues[a]) > 0 /\ Head(txQueues[a]).retryCount = 5
    /\ accepted[Head(txQueues[a]).id] >= 1

C16_CallbackRaiseNonFatal ==
  [][\A q \in ReqIds : (thrown' > thrown /\ completions'[q] # completions[q]) =>
       LET a == owner[q] IN
       /\ outcome'[q] # "none"
       /\ \A i \in 1 .. Len(txQueues'[a]) : txQueues'[a][i].id # q
       /\ Len(txQueues'[a]) > 0 => processingFlags'[a]]_vars

(* --------------------------- fee estimation -------------------------- *)
\* a quote with its components drawn from B and P and a GAS_PRIORITY setting,
\* before the estimator is called on them
InitFeeOn(B, P) ==
  /\ isInitialized = FALSE
  /\ onTransactionComplete = FALSE
  /\ relayers = <<>>
  /\ relayerStats = [a \in Addr |-> ZeroStats(0)]
  /\ txQueues = [a \in Addr |-> <<>>]
  /\ processingFlags = [a \in Addr |-> FALSE]
  /\ pc = [a \in Addr |-> "idle"]
  /\ instances = [a \in Addr |-> 0]
  /\ consecutiveFailures = [a \in Addr |-> 0]
  /\ txData = [a \in Addr |-> NoTx]
  /\ txNonce = [a \in Addr |-> 0]
  /\ timers = [a \in Addr |-> 0]
  /\ backoffTime = [a \in Addr |-> 0]
  /\ detached = [a \in Addr |-> FALSE]
  /\ registry = [a \in Addr |-> "absent"]
  /\ latest = [a \in Addr |-> 0]
  /\ mempool = [a \in Addr |-> {}]
  /\ nextId = 1
  /\ lastCall = NoCall
  /\ accepted = [q \in ReqIds |-> 0]
  /\ attempts = [q \in ReqIds |-> 0]
  /\ lastBackoff = [q \in ReqIds |-> 0]
  /\ completions = [q \in ReqIds |-> <<>>]
  /\ outcome = [q \in ReqIds |-> "none"]
  /\ owner = [q \in ReqIds |-> 0]
  /\ thrown = 0
  /\ GAS_PRIORITY \in EnvValues
  /\ feeData \in [maxFeePerGas : B, maxPriorityFeePerGas : P]
  /\ fees = NoFees
  /\ prevFees = NoFees
  /\ feeCalls = 0

InitFee == InitFeeOn(BaseQuotes, PriorityQuotes)

\* const fees = this.calculateGasFeesByPriority(feeData), on the same quote again
EstimateFees ==
  /\ feeCalls < MaxFeeCalls
  /\ fees' = calculateGasFeesByPriority(feeData, GAS_PRIORITY)
  /\ prevFees' = fees
  /\ feeCalls' = feeCalls + 1
  /\ UNCHANGED <<GAS_PRIORITY, feeData, isInitialized, onTransactionComplete, relayers,
                 registry,
                 relayerStats, txQueues, processingFlags, procVars, ledgerVars, nextId,
                 lastCall, histVars>>

NextFee == EstimateFees

SpecFee == InitFee /\ [][NextFee]_vars

\* the estimator on quotes whose priority component may be as large as the base
\* component, and larger than the floors of the max fee
InitFeeWide == InitFeeOn(WideQuotes, WideQuotes)

SpecFeeWide == InitFeeWide /\ [][NextFee]_vars

\* C17: the estimator returns the same fees for the same quote and setting, and
\* for every setting and every quote, a zero or an absent one included, both
\* fees are at least the floor of the tier: 60 and 2 gwei for slow, 120 and 4
\* for fast, 90 and 3 for medium and for every other setting
Tier ==
  CASE GAS_PRIORITY = "slow" -> "slow"
    [] GAS_PRIORITY \in {"fast", "FAST"} -> "fast"
    [] OTHER -> "medium"
FloorOf(t) ==
  CASE t = "slow" -> [maxFee |-> 60 * WeiPerGwei, maxPriorityFee |-> 2 * WeiPerGwei]
    [] t = "medium" -> [maxFee |-> 90 * WeiPerGwei, maxPriorityFee |-> 3 * WeiPerGwei]
    [] t = "fast" -> [maxFee |-> 120 * WeiPerGwei, maxPriorityFee |-> 4 * WeiPerGwei]
RatioOf(t) ==
  CASE t = "slow" -> [maxFee |-> 120, maxPriorityFee |-> 100]
    [] t = "medium" -> [maxFee |-> 150, maxPriorityFee |-> 150]
    [] t = "fast" -> [maxFee |-> 250, maxPriorityFee |-> 200]
Larger(x, y) == IF x >= y THEN x ELSE y
\* the fees the statement gives when the components in absent are replaced
FeesFor(absent) ==
  LET base == IF feeData.maxFeePerGas \in absent
              THEN 50 * WeiPerGwei ELSE feeData.maxFeePerGas
      priority == IF feeData.maxPriorityFeePerGas \in absent
                  THEN (15 * WeiPerGwei) \div 10 ELSE feeData.maxPriorityFeePerGas
  IN  [maxFeePerGas |-> Larger(FloorOf(Tier).maxFee,
                               (base * RatioOf(Tier).maxFee) \div 100),
       maxPriorityFeePerGas |-> Larger(FloorOf(Tier).maxPriorityFee,
                               (priority * RatioOf(Tier).maxPriorityFee) \div 100)]
C18_FeesAreClampedProducts == feeCalls >= 1 => fees = FeesFor({NoFee, 0})
C18_Witness ==
  /\ feeCalls >= 1
  /\ GAS_PRIORITY = "fast"
  /\ feeData = [maxFeePerGas |-> 0, maxPriorityFeePerGas |-> 1]
  /\ fees = [maxFeePerGas |-> 125 * WeiPerGwei, maxPriorityFeePerGas |-> 4 * WeiPerGwei]
\* the statement as it stands: only an absent component is replaced, a zero
\* one is multiplied as it is
C18_OnlyAbsentReplaced == feeCalls >= 1 => fees = FeesFor({NoFee})

\* C19: an initialize call that leaves the pool without a wallet returns false
\* and leaves the system uninitialized, and while it is uninitialized every
\* queueTransaction call returns false and queues nothing
IsInitializeStep == ~isInitialized /\ lastCall'.op = "initialize"
C19_NoRelayersFailsInitialize ==
  [][/\ (IsInitializeStep /\ Len(relayers') = 0) =>
          lastCall'.ret = FALSE /\ ~isInitialized'
     /\ (IsEnqueueStep /\ ~isInitialized) =>
          lastCall'.ret = FALSE /\ UNCHANGED <<txQueues, relayerStats, nextId>>]_vars

(* ------------------------ deactivating a wallet ---------------------- *)
\* one wallet and one request, with the callback free to raise, while the
\* wallet's status is set; address 2 is one the registry does not know
NextStatus ==
  \/ Initialize(TRUE, 1)
  \/ nextId = 1 /\ queueTransaction("0xA", 1)
  \/ \E raises \in {"no", "free"} : Processor(1, raises)
  \/ Mine(1)
  \/ TimerFires(1)
  \/ \E a \in {1, 2}, isActive \in BOOLEAN : setRelayerStatus(a, isActive)

FairStatus == Init /\ [][NextStatus]_vars /\ Fairness

\* C20: a queueTransaction call never appends to a wallet that is inactive at
\* the call; a wallet that is inactive with requests queued gets its queue
\* emptied (or is reactivated); and setRelayerStatus on an address that is not
\* in the registry returns false and changes nothing else
IsStatusStep == lastCall'.op = "setRelayerStatus" /\ lastCall' # lastCall
C20_InactiveStillDrains ==
  /\ [][IsEnqueueStep =>
          \A a \in Addr : txQueues'[a] # txQueues[a] => relayerStats[a].active]_vars
  /\ [][(IsStatusStep /\ ~lastCall'.ret) =>
          UNCHANGED <<relayerStats, txQueues, processingFlags, procVars>>]_vars
  /\ (~relayerStats[1].active /\ Len(txQueues[1]) > 0)
        ~> (relayerStats[1].active \/ Len(txQueues[1]) = 0)

\* C21: in every state between two steps, the queueLength in the stats of each
\* wallet of the pool is the number of requests in that wallet's queue
C21_QueueLengthConsistent ==
  \A a \in Pool : relayerStats[a].queueLength = Len(txQueues[a])
C21_Witness ==
  /\ C21_QueueLengthConsistent
  /\ \E a \in Pool :
       /\ Len(txQueues[a]) = 1
       /\ \E q \in ReqIds : owner[q] = a /\ outcome[q] = "success"
       /\ thrown > 0

\* C22: a queueTransaction call is one step that touches no ledger state, and
\* when it returns true the request is the last of the selected wallet's
\* queue, that wallet's flag is set with an instance suspended before its first
\* ledger read or further on, and the callback has not been invoked for it
C22_EnqueueReturnsAtOnce ==
  [][(IsEnqueueStep /\ lastCall'.ret) =>
       LET q == nextId
           a == selectRelayer
       IN  /\ a \in Pool
           /\ owner'[q] = a
           /\ txQueues'[a] = Append(txQueues[a],
                [id |-> q, pointsToMint |-> lastCall'.pointsToMint, retryCount |-> 0])
           /\ processingFlags'[a]
           /\ pc'[a] # "idle"
           /\ completions'[q] = <<>>
           /\ outcome'[q] = "none"
           /\ accepted'[q] = 0
           /\ UNCHANGED ledgerVars]_vars
C22_Witness ==
  /\ lastCall.op = "queueTransaction"
  /\ lastCall.ret
  /\ nextId = 3
  /\ timers[owner[2]] > 0
  /\ processingFlags[owner[2]]
  /\ pc[owner[2]] = "refresh"
  /\ Len(txQueues[owner[2]]) = 2
  /\ completions[2] = <<>>

(* ------------------------- the other operations ---------------------- *)
\* a server with one key, its administrative calls (wallet 2 and the indices
\* -1 and 1 are not in the pool) and the provider reconnect, which initializes
\* the running system again
NextReinit ==
  \/ Initialize(TRUE, 1)
  \/ nextId = 1 /\ queueTransaction("0xA", 1)
  \/ Processor(1, "no")
  \/ Mine(1)
  \/ \E a \in {1, 2}, isActive \in BOOLEAN : setRelayerStatus(a, isActive)
  \/ \E i \in -1 .. 1, ok \in BOOLEAN : refreshRelayerNonce(i, ok)
  \/ \E isFunction \in BOOLEAN : setTransactionCompleteCallback(isFunction)
  \/ \E failed \in SUBSET Pool : reconnectProvider(failed)

SpecReinit == Init /\ [][NextReinit]_vars

\* C23: the requests of a queue and their order change in two ways only: a
\* queueTransaction call appends the new request, and a step of the wallet's
\* own processor removes the head on success, permanent failure or retry
\* exhaustion; no other call, a repeated initialize included, changes them
IdsOf(queue) == [i \in 1 .. Len(queue) |-> queue[i].id]
C23_OnlyProcessorRemoves ==
  [][\A a \in Addr :
       LET old == IdsOf(txQueues[a])
           new == IdsOf(txQueues'[a])
       IN  \/ new = old
           \/ IsEnqueueStep /\ new = Append(old, nextId)
           \/ /\ old # <<>>
              /\ new = Tail(old)
              /\ pc[a] \in {"refresh", "cooldown", "attempt", "submit", "wait", "nonceErr"}
              /\ outcome'[old[1]] \in {"success", "permanent", "exhausted"}]_vars

\* C24: a wallet has at most one processQueue instance, and two processors
\* that are both inside a submission call never sign with the same wallet, in
\* either variant of the processor
Submitting(a) == pc[a] = "submit"
C24_OneProcessorPerCredential ==
  \A variant \in Variants : \A a \in Pool, b \in Pool :
     /\ instances[a] <= 1
     /\ (a # b /\ Submitting(a) /\ Submitting(b)) =>
           SignerOf(variant, a) # SignerOf(variant, b)

\* C25: while a wallet sits in its cooldown or in a back-off delay, a valid
\* queueTransaction call is still admitted (there is an active wallet and the
\* run has requests left), and the processor of every other wallet that is not
\* idle can take its next step
Paused(a) == pc[a] \in {"cooldown", "backoff"}
C25_PauseIsLocal ==
  \A a \in Pool : Paused(a) =>
     /\ (nextId <= MaxRequests /\ selectRelayer # 0) =>
           ENABLED (queueTransaction("0xA", 1) /\ lastCall'.ret)
     /\ \A b \in Pool \ {a} : pc[b] # "idle" => ENABLED Processor(b, "no")
C25_Witness ==
  \E a \in Pool, b \in Pool, q \in ReqIds :
     /\ a # b
     /\ pc[a] = "cooldown"
     /\ owner[q] = b
     /\ outcome[q] = "success"
     /\ relayerStats[b].totalTxFailed = 0
     /\ lastCall.op = "queueTransaction" /\ lastCall.ret

\* C26: a step of the processor of wallet a leaves the stats record (cached
\* nonce included), the queue, the flag and the processor of every other
\* wallet as they were, and does not touch the pool
ProcStep(a) == pc[a] # "idle" /\ pc'[a] # pc[a]
C26_ProcessorStepIsLocal ==
  [][\A a \in Addr : ProcStep(a) =>
       /\ \A b \in Addr \ {a} :
            /\ relayerStats'[b] = relayerStats[b]
            /\ txQueues'[b] = txQueues[b]
            /\ processingFlags'[b] = processingFlags[b]
            /\ pc'[b] = pc[b]
            /\ txData'[b] = txData[b]
            /\ consecutiveFailures'[b] = consecutiveFailures[b]
       /\ UNCHANGED <<relayers, isInitialized, onTransactionComplete, nextId>>]_vars
C26_Witness ==
  /\ pc[1] = "wait"
  /\ pc[2] = "backoff"
  /\ relayerStats[1].totalTxSent = 0
  /\ relayerStats[1].currentNonce = 1
  /\ relayerStats[2].totalTxFailed = 2
  /\ relayerStats[2].currentNonce = 0
  /\ processingFlags[1] /\ processingFlags[2]

(* ----------------------- out-of-band nonce refresh -------------------- *)
\* the server of Next with the admin route that refreshes a wallet's nonce;
\* the indices -1 and NumKeys are outside every pool
NextRefresh ==
  \/ Drive(1 .. NumKeys, {"no"})
  \/ \E i \in -1 .. NumKeys, ok \in BOOLEAN : refreshRelayerNonce(i, ok)

SpecRefresh == Init /\ [][NextRefresh]_vars

\* C27: in every reachable state, refreshRelayerNonce with an index inside the
\* pool and a ledger read that succeeds returns true and sets that wallet's
\* cached nonce to the count read, leaving every other entry as it is; with an
\* index outside the pool or a read that fails it returns false and changes no
\* stats record
RefreshedTo(i) ==
  LET a == relayers[i + 1]
  IN  [relayerStats EXCEPT ![a].currentNonce = PendingCount(a)]
C28_FlagOnlyWhileRunning ==
  \A a \in Addr : processingFlags[a] => pc[a] # "idle" /\ instances[a] = 1
\* the instance stopped on an exception with a request still queued
C28_Witness ==
  \E a \in Pool :
     /\ thrown = 1
     /\ pc[a] = "idle"
     /\ instances[a] = 0
     /\ Len(txQueues[a]) > 0
     /\ ~processingFlags[a]

(* --------------------------- no lost wake-up -------------------------- *)
\* C29: in every reachable state, a wallet whose queue holds a request has its
\* processingFlag true or a restart of its processor pending on a timer
C29_NoLostWakeup ==
  \A a \in Addr : Len(txQueues[a]) > 0 => processingFlags[a] \/ timers[a] > 0
\* two requests wait, no instance runs, and only the timer will drain them
C29_Witness ==
  \E a \in Pool :
     /\ Len(txQueues[a]) = 2
     /\ ~processingFlags[a]
     /\ pc[a] = "idle"
     /\ timers[a] = 1

(* ------------------------ attempts per request ------------------------ *)
\* the step of the processor that holds request q classifies its failure as
\* permanent: it removes q as such, or it invokes the callback for q with
\* success = false
ClassifiedPermanent(q) ==
  /\ owner[q] # 0
  /\ pc[owner[q]] \in InHand
  /\ txData[owner[q]].id = q
  /\ \/ outcome[q] = "none" /\ outcome'[q] = "permanent"
     \/ /\ Len(completions'[q]) = Len(completions[q]) + 1
        /\ ~completions'[q][Len(completions'[q])]

\* C30: no request is attempted more than maxRetries = 5 times, counted over
\* its whole life and over the restarts of its processor; and the step that
\* classifies a failure of the request as permanent removes it from its queue,
\* after which it is never attempted again
C30_AttemptsWithinBudget ==
  /\ [](\A q \in ReqIds : attempts[q] <= maxRetries)
  /\ [][\A q \in ReqIds :
          /\ ClassifiedPermanent(q) =>
               /\ outcome'[q] = "permanent"
               /\ \A i \in 1 .. Len(txQueues'[owner[q]]) : txQueues'[owner[q]][i].id # q
          /\ outcome[q] = "permanent" => attempts'[q] = attempts[q]]_vars

(* --------------------------- the nonce tracker ------------------------ *)
\* C31: every step leaves each wallet's cached nonce as it was, or sets it to
\* what a read of the ledger for that wallet returns (mined or pending count),
\* or counts it up by one in the step in which the ledger accepted a
\* submission carrying the old value; a submission step the ledger did not
\* accept leaves the cached nonce as it was
C31_NonceNeverInvented ==
  [][\A a \in Addr :
       LET old == relayerStats[a].currentNonce
           new == relayerStats'[a].currentNonce
           submitted == pc[a] = "submit" /\ pc'[a] # "submit"
           acceptedNow == submitted /\ pc'[a] = "wait" /\ old \in mempool'[a]
       IN  /\ \/ new = old
              \/ new \in {LatestCount(a), PendingCount(a)} /\ ~submitted
              \/ new = old + 1 /\ acceptedNow
           /\ submitted /\ ~acceptedNow => new = old]_vars
\* a wallet waits for its second request's transaction, the optimistic count
\* ahead of both ledger reads, with a failed submission behind it
C31_Witness ==
  \E a \in Pool :
     /\ pc[a] = "wait"
     /\ relayerStats[a].currentNonce = txNonce[a] + 1
     /\ relayerStats[a].currentNonce > LatestCount(a)
     /\ txNonce[a] \in mempool[a]
     /\ relayerStats[a].totalTxFailed > 0
     /\ txData[a].retryCount > 0

(* ---------------------- best-effort nonce refresh --------------------- *)
\* one wallet driven by the loop of the minting variant: no nonce is read at
\* the top of an iteration or after a nonce error, the balance read decides
\* between two submission calls instead of raising, and the read after the
\* cooldown is unguarded; the attempt itself suspends where the transfer
\* variant's does
NextMint ==
  \/ Initialize(TRUE, 1)
  \/ queueTransaction("0xA", 1)
  \/ RefreshNonce(1, FALSE, "no")
  \/ \E ok \in BOOLEAN : CooldownUnguarded(1, ok, "no")
  \/ \E res \in {"ok", "error"} : CheckBalance(1, res)
  \/ \E res \in {"accept", "nonce", "permanent", "other"} : Submit(1, res, "no")
  \/ \E res \in {"confirmed", "timeout"} : Wait(1, res, "no")
  \/ NonceErrRefresh(1, FALSE)
  \/ Backoff(1)
  \/ PostDelay(1)
  \/ Mine(1)
  \/ TimerFires(1)

SpecMint == Init /\ [][NextMint]_vars

\* the processor of wallet a stays in its drain and turns to the head request:
\* it takes the request in hand, or removes it because its budget is used up
GoesOn(a) ==
  \/ pc'[a] = "attempt" /\ processingFlags'[a] /\ txData'[a].id = Head(txQueues[a]).id
  \/ outcome'[Head(txQueues[a]).id] = "exhausted"

\* C32: every step that leaves one of the three best-effort nonce reads, the
\* read having failed or not, leaves the cached nonce at its last value or at
\* the count read, and keeps the processor in its drain: from the top of the
\* iteration it goes to the cooldown or on to the head request, from the
\* cooldown on to the head request, and after a nonce error to the back-off
\* for the head request
C32_RefreshFailureSwallowed ==
  [][\A a \in Addr :
       LET old == relayerStats[a].currentNonce
           new == relayerStats'[a].currentNonce
       IN  /\ pc[a] = "refresh" /\ pc'[a] # "refresh" =>
                /\ new \in {old, PendingCount(a)}
                /\ (pc'[a] = "cooldown" /\ processingFlags'[a]) \/ GoesOn(a)
           /\ pc[a] = "cooldown" /\ pc'[a] # "cooldown" =>
                /\ new \in {old, LatestCount(a)}
                /\ GoesOn(a)
           /\ pc[a] = "nonceErr" /\ pc'[a] # "nonceErr" =>
                /\ new \in {old, LatestCount(a)}
                /\ pc'[a] = "backoff" /\ processingFlags'[a]
                /\ Head(txQueues'[a]).id = txData[a].id]_vars

(* ------------------------------ back-off ------------------------------ *)
\* the smaller of two delays
Smaller(x, y) == IF x <= y THEN x ELSE y

\* C33: the step in which an attempt fails transiently suspends the processor
\* for min(base * 2^k, cap) ms, k being the retryCount the request had before
\* the attempt, base 2000 and cap 30000; that delay is at least the request's
\* previous back-off delay; and no back-off delay exceeds the cap
C33_BackoffDoublesToCap ==
  /\ [](\A a \in Addr : backoffTime[a] <= 30000)
  /\ [][\A a \in Addr : pc[a] # "backoff" /\ pc'[a] = "backoff" =>
          LET k == txData[a].retryCount
              q == txData[a].id
          IN  /\ backoffTime'[a] = Smaller(2000 * 2 ^ k, 30000)
              /\ backoffTime'[a] >= lastBackoff[q]
              /\ lastBackoff'[q] = backoffTime'[a]]_vars
\* the fifth attempt of a request failed after back-offs of 2, 4, 8 and 16 s:
\* the delay is at the cap, below 2000 * 2^4
C33_Witness ==
  \E a \in Pool :
     /\ pc[a] = "backoff"
     /\ backoffTime[a] = 30000
     /\ attempts[Head(txQueues[a]).id] = 5
     /\ lastBackoff[Head(txQueues[a]).id] = 30000
     /\ relayerStats[a].totalTxFailed = 5

(* --------------------------- success counters ------------------------- *)
\* one wallet whose requests differ in their amounts: request q asks for q
\* tokens; the callback may raise
NextAmounts ==
  \/ Initialize(TRUE, 1)
  \/ queueTransaction("0xA", nextId)
  \/ \E raises \in {"no", "counted"} : Processor(1, raises)
  \/ Mine(1)
  \/ TimerFires(1)

SpecAmounts == Init /\ [][NextAmounts]_vars

\* the requests of wallet a for which the callback was invoked with success
NotifiedSuccess(a) ==
  {q \in ReqIds : owner[q] = a /\ \E i \in 1 .. Len(completions[q]) : completions[q][i]}
\* the amount of request q under NextAmounts
AmountOf(q) == q
RECURSIVE SumOfAmounts(_)
SumOfAmounts(S) ==
  IF S = {} THEN 0
  ELSE LET q == CHOOSE x \in S : TRUE IN AmountOf(q) + SumOfAmounts(S \ {q})

\* C34: in every reachable state, each wallet's totalTxSuccess is the number of
\* its requests the callback was invoked for with success = true, and its
\* tokensTransferred is the sum of the amounts of those requests
C34_SuccessCountedOnce ==
  \A a \in Addr :
     /\ relayerStats[a].totalTxSuccess = Cardinality(NotifiedSuccess(a))
     /\ relayerStats[a].tokensTransferred = SumOfAmounts(NotifiedSuccess(a))

(* ------------------------- the first initialize ----------------------- *)
\* the server started with nonce reads that may fail, or with the owner
\* wallet as its only relayer, then given one request
NextInit ==
  \/ \E n \in 1 .. NumKeys, failed \in SUBSET (1 .. NumKeys) : InitializeEnv(n, failed)
  \/ \E read \in {"resolved", "pending", "rejected"} : InitializeOwner(read)
  \/ \E ok \in BOOLEAN : setupOwnerAsRelayer(ok)
  \/ getRelayerStatus
  \/ nextId = 1 /\ queueTransaction("0xA", 1)
  \/ \E a \in Pool : Processor(a, "no")
  \/ \E a \in Pool : Mine(a)

SpecInit == Init /\ [][NextInit]_vars

\* C35: once initialize has returned true every wallet of the pool has its
\* registry entries; at the return each has zeroed counters, an empty queue
\* and a cleared flag; and a status query never meets a pool member without
\* its stats
C35_PoolMembersRegistered ==
  /\ [](isInitialized => \A a \in Pool : registry[a] = "present")
  /\ [](lastCall.op = "getRelayerStatus" => lastCall.ret)
  /\ [][IsInitializeStep /\ lastCall'.ret =>
          \A i \in 1 .. Len(relayers') :
             LET a == relayers'[i]
             IN  /\ registry'[a] = "present"
                 /\ relayerStats'[a] = ZeroStats(relayerStats'[a].currentNonce)
                 /\ txQueues'[a] = <<>>
                 /\ ~processingFlags'[a]]_vars

(* ------------------------- provider reconnect ------------------------- *)
\* one wallet with two requests while the provider reconnects and initialize
\* runs again
NextReconnect ==
  \/ Initialize(TRUE, 1)
  \/ queueTransaction("0xA", 1)
  \/ Processor(1, "no")
  \/ Mine(1)
  \/ \E failed \in SUBSET Pool : reconnectProvider(failed)

SpecReconnect == Init /\ [][NextReconnect]_vars

\* the same for the minting variant
NextMintReconnect ==
  \/ NextMint
  \/ \E failed \in SUBSET Pool : reconnectProviderMint(failed)

SpecMintReconnect == Init /\ [][NextMintReconnect]_vars

\* C36: whatever initialize calls are repeated, no request leaves its queue
\* other than through its processor, a wallet whose processor is running has
\* its processingFlag set, no wallet is in the pool twice, and no wallet has
\* two processQueue instances
C36_ReinitializeKeepsQueues ==
  /\ \A q \in ReqIds : outcome[q] \notin {"reset", "displaced"}
  /\ \A a \in Addr : pc[a] # "idle" => processingFlags[a]
  /\ \A i, j \in 1 .. Len(relayers) : relayers[i] = relayers[j] => i = j
  /\ \A a \in Addr : instances[a] <= 1

\* C37: for every setting and every quote whose priority component is not
\* above its base component, once the absent components have their defaults
\* (whether a zero counts as absent or not), the priority fee the estimator
\* returns is not above the max fee it returns
WithDefault(v, d, absent) == IF v \in absent THEN d ELSE v
PriorityWithinBase(absent) ==
  WithDefault(feeData.maxPriorityFeePerGas, (15 * WeiPerGwei) \div 10, absent)
    <= WithDefault(feeData.maxFeePerGas, 50 * WeiPerGwei, absent)
C37_PriorityFeeWithinMaxFee ==
  (feeCalls >= 1 /\ (PriorityWithinBase({NoFee}) \/ PriorityWithinBase({NoFee, 0})))
    => fees.maxPriorityFeePerGas <= fees.maxFeePerGas
\* a priority fee above the floor of the max fee, and within the max fee
C37_Witness ==
  /\ feeCalls >= 1
  /\ GAS_PRIORITY = "fast"
  /\ feeData = [maxFeePerGas |-> 125, maxPriorityFeePerGas |-> 125]
  /\ fees.maxPriorityFeePerGas = 250
  /\ fees.maxPriorityFeePerGas > 120 * WeiPerGwei
  /\ fees.maxFeePerGas = 312

====
